---- MODULE Spec2Model ----
(***************************************************************************)
(* State-machine model of process-viewer's per-process dialog              *)
(* (src/src/process_dialog.rs), process table (src/src/display_procs.rs)   *)
(* and system information tab (src/src/display_sysinfo.rs).                *)
(*                                                                         *)
(* Text is modelled as a sequence of one-character strings, so that        *)
(* concatenation, emptiness and substring containment are computed and     *)
(* not assumed.  Byte counts are naturals; a CPU percentage (f32 in the    *)
(* source) is a natural number of hundredths of a percent.                 *)
(***************************************************************************)
EXTENDS Integers, Sequences, FiniteSets, TLC

VARIABLES
    \* ---- ProcDialog (process_dialog.rs:21-39) ----
    working_directory, memory_usage, disk_usage, cpu_usage, run_time,
    ram_usage_history, cpu_usage_history, disk_usage_history,
    memory_peak, memory_peak_label, disk_peak, disk_peak_label,
    is_dead, to_be_removed,
    \* ---- history of the calls made on the dialog ----
    update_calls, set_dead_calls, memory_seen, disk_seen, memory_peak_label_log,
    \* ---- Procs (display_procs.rs:20-32) ----
    list_store,             \* the rows of the gtk::ListStore, in store order
    filter_entry_visible,   \* WidgetExt::is_visible(&filter_entry)
    filter_entry_text,      \* filter_entry.text()
    sort_column_id,         \* sort column of the TreeModelSort under left_tree
    sort_order,             \* its sort order
    \* ---- the process list the table was last filled from ----
    proc_list,
    \* ---- graphs of the dialog: a sample was written since the last invalidate ----
    dialog_stale,
    \* ---- TreeModelFilter: the pids of the rows it holds as visible ----
    filter_shown,
    \* ---- DisplaySysInfo (display_sysinfo.rs:63-77) ----
    display_tab,            \* the DisplaySysInfo: a record of its fields
    display_fahrenheit,     \* settings.display_fahrenheit
    sys_pc,                 \* position inside the tick of the system tab
    sys_ticks,              \* number of ticks started
    sys_seen,               \* the snapshot of the last update_system_info
    \* ---- one call of a formatting function and what it returned ----
    call, result,
    \* ---- Procs: the selection of left_tree and what follows it ----
    selected,               \* tree_view.selection().selected(): the row, if any
    current_pid,            \* Procs.current_pid
    kill_button_sensitive,  \* sensitivity of the "End task" button
    info_button_sensitive,  \* sensitivity of the "More information" button
    cursor_changed_calls    \* number of cursor changes so far

dialogLabels == <<working_directory, memory_usage, disk_usage, cpu_usage, run_time,
                  memory_peak_label, disk_peak_label>>
dialogPeaks == <<memory_peak, disk_peak>>
dialogGraphs == <<ram_usage_history, cpu_usage_history, disk_usage_history, dialog_stale>>
dialogFields == <<dialogLabels, dialogPeaks, dialogGraphs, is_dead, to_be_removed>>
dialogHistory == <<update_calls, set_dead_calls, memory_seen, disk_seen, memory_peak_label_log>>
dialogVars == <<dialogFields, dialogHistory>>

tableVars == <<list_store, filter_entry_visible, filter_entry_text,
               sort_column_id, sort_order, proc_list, filter_shown>>

sysVars == <<display_tab, display_fahrenheit, sys_pc, sys_ticks, sys_seen>>

callVars == <<call, result>>

cursorVars == <<selected, current_pid, kill_button_sensitive, info_button_sensitive,
                cursor_changed_calls>>

vars == <<dialogVars, tableVars, sysVars, callVars, cursorVars>>

----------------------------------------------------------------------------
(* Bounds *)

\* number of update calls made on one dialog
MaxUpdates == 2
\* number of set_dead calls made on one dialog
MaxSetDead == 2

\* longest command line (number of arguments) of a process of the table
MaxArgs == 1
MaxCursorChanges == 2

\* length of every RotateVec pushed into a graph
HistoryLen == 61

----------------------------------------------------------------------------
(* Text helpers *)

Digits == <<"0", "1", "2", "3", "4", "5", "6", "7", "8", "9">>

RECURSIVE to_string(_)
\* Display of an unsigned integer in decimal ({} on u32 / u64).
to_string(n) ==
    IF n < 10 THEN <<Digits[n + 1]>>
    ELSE to_string(n \div 10) \o <<Digits[(n % 10) + 1]>>

\* format!("{:.1}", x) for the f32 x = c / 100: nearest tenth, an exact tie
\* going to the even tenth.
FormatF32_1(c) ==
    LET lo == c \div 10
        r == c % 10
        tenths == IF r > 5 \/ (r = 5 /\ lo % 2 = 1) THEN lo + 1 ELSE lo
    IN to_string(tenths \div 10) \o <<".">> \o to_string(tenths % 10)

\* The byte formatter of utils.rs: the base unit below 1000, then a unit
\* chosen by the thresholds 100,000 / 10,000,000 on the kB count.
format_number(nb) ==
    LET kb == nb \div 1000 IN
    IF nb < 1000 THEN to_string(nb) \o <<" ", "B">>
    ELSE IF kb < 100000 THEN to_string(kb) \o <<" ", "k", "B">>
    ELSE IF kb < 10000000 THEN to_string(kb \div 1000) \o <<" ", "M", "B">>
    ELSE to_string(kb \div 1000000) \o <<" ", "G", "B">>

format_time_hours_of_all_days(t) ==
    LET days == t \div 86400
        hours == t \div 3600
        minutes == (t \div 60) % 60
    IN (IF days > 0 THEN to_string(days) \o <<"d", " ">> ELSE <<>>)
       \o (IF hours > 0 THEN to_string(hours) \o <<"h", " ">> ELSE <<>>)
       \o (IF minutes > 0 THEN to_string(minutes) \o <<"m", " ">> ELSE <<>>)
       \o to_string(t % 60) \o <<"s">>

\* format_time(t: u64) -> String
format_time(t) ==
    LET days == t \div 86400
        hours == (t \div 3600) % 24
        minutes == (t \div 60) % 60
    IN (IF days > 0 THEN to_string(days) \o <<"d", " ">> ELSE <<>>)
       \o (IF hours > 0 THEN to_string(hours) \o <<"h", " ">> ELSE <<>>)
       \o (IF minutes > 0 THEN to_string(minutes) \o <<"m", " ">> ELSE <<>>)
       \o to_string(t % 60) \o <<"s">>

RanFor == <<"R", "a", "n", " ", "f", "o", "r", " ">>

----------------------------------------------------------------------------
(* RotateVec (utils.rs), seen through move_start / get_mut: index 1 of the *)
(* sequence is get(0), the newest sample.                                  *)

RotateVecNew(len) == [i \in 1..len |-> 0]

\* move_start: the oldest slot becomes slot 0, every other sample moves one
\* index back.
move_start(v) == IF v = <<>> THEN v ELSE <<v[Len(v)]>> \o SubSeq(v, 1, Len(v) - 1)

\* *v.get_mut(i) = x, for an index the vector has
set_sample(v, i, x) == [v EXCEPT ![i + 1] = x]

\* data[0].move_start(); *data[0].get_mut(0) = x
push_sample(v, x) == set_sample(move_start(v), 0, x)

\* what a graph's stale mark is after a sample was written into a series
sample_written == TRUE

\* Graph::invalidate: the drawing area is queued for a redraw from the series
invalidate == FALSE

\* the stale marks of the three graphs of a dialog, all invalidated
dialog_invalidated == [ram |-> invalidate, cpu |-> invalidate, disk |-> invalidate]

----------------------------------------------------------------------------
(* The sysinfo::Process values a dialog is created from and updated with   *)

MemoryValues == {50, 100, 200}          \* process.memory(), in kB
ReadValues == {0, 2}                    \* disk_usage().read_bytes
WrittenValues == {0, 3}                 \* disk_usage().written_bytes
ProcessStates ==
    { [cpu_usage |-> 0, run_time |-> 0, cwd |-> <<"/">>],
      [cpu_usage |-> 996, run_time |-> 65, cwd |-> <<"/", "a">>] }

Processes ==
    { [memory |-> m, read_bytes |-> r, written_bytes |-> w,
       cpu_usage |-> s.cpu_usage, run_time |-> s.run_time, cwd |-> s.cwd] :
        m \in MemoryValues, r \in ReadValues, w \in WrittenValues, s \in ProcessStates }

----------------------------------------------------------------------------
(* ProcDialog *)

\* create_process_dialog(process, total_memory)
create_process_dialog(process) ==
    LET memory == process.memory * 1000
        disk == process.written_bytes + process.read_bytes
    IN /\ memory_usage = format_number(memory)
       /\ memory_peak = memory
       /\ memory_peak_label = format_number(memory)
       /\ disk_peak = disk
       /\ disk_usage = format_number(disk)
       /\ disk_peak_label = format_number(disk)
       /\ cpu_usage = FormatF32_1(process.cpu_usage) \o <<"%">>
       /\ run_time = format_time(process.run_time)
       /\ working_directory = process.cwd
       /\ cpu_usage_history = RotateVecNew(HistoryLen)
       /\ ram_usage_history = RotateVecNew(HistoryLen)
       /\ disk_usage_history = RotateVecNew(HistoryLen)
       /\ dialog_stale = dialog_invalidated
       /\ is_dead = FALSE
       /\ to_be_removed = FALSE
       /\ update_calls = 0
       /\ set_dead_calls = 0
       /\ memory_seen = <<memory>>
       /\ disk_seen = <<disk>>
       /\ memory_peak_label_log = <<format_number(memory)>>

\* the comparison guarding each peak: `if memory > *self.memory_peak.borrow()`
peak_raised_or_equal(value, peak) == value >= peak

peak_lowered(value, peak) == value < peak

peak_raised(value, peak) == value > peak

\* ProcDialog::update past the is_dead check
update_live(process) ==
    LET memory == process.memory * 1000
        memory_s == format_number(memory)
        disk == process.written_bytes + process.read_bytes
        disk_s == format_number(disk)
    IN /\ working_directory' = process.cwd
       /\ memory_usage' = memory_s
       /\ IF peak_raised(memory, memory_peak)
          THEN /\ memory_peak' = memory
               /\ memory_peak_label' = memory_s
               /\ memory_peak_label_log' = Append(memory_peak_label_log, memory_s)
          ELSE UNCHANGED <<memory_peak, memory_peak_label, memory_peak_label_log>>
       /\ disk_usage' = disk_s
       /\ IF peak_raised(disk, disk_peak)
          THEN /\ disk_peak' = disk
               /\ disk_peak_label' = disk_s
          ELSE UNCHANGED <<disk_peak, disk_peak_label>>
       /\ cpu_usage' = FormatF32_1(process.cpu_usage) \o <<"%">>
       /\ run_time' = format_time(process.run_time)
       /\ ram_usage_history' = push_sample(ram_usage_history, memory)
       /\ cpu_usage_history' = push_sample(cpu_usage_history, process.cpu_usage)
       /\ disk_usage_history' = push_sample(disk_usage_history, disk)
       /\ dialog_stale' = dialog_invalidated
       /\ memory_seen' = Append(memory_seen, memory)
       /\ disk_seen' = Append(disk_seen, disk)

update_ignoring_death(process) ==
    /\ update_calls < MaxUpdates
    /\ update_calls' = update_calls + 1
    /\ UNCHANGED <<is_dead, to_be_removed, set_dead_calls>>
    /\ update_live(process)

\* ProcDialog::update(&self, process)
update(process) ==
    /\ update_calls < MaxUpdates
    /\ update_calls' = update_calls + 1
    /\ UNCHANGED <<is_dead, to_be_removed, set_dead_calls>>
    /\ IF is_dead
       THEN UNCHANGED <<dialogLabels, dialogPeaks, dialogGraphs,
                        memory_seen, disk_seen, memory_peak_label_log>>
       ELSE update_live(process)

set_dead_live_bare_zero ==
    /\ is_dead' = TRUE
    /\ memory_usage' = <<"0">>
    /\ disk_usage' = <<"0">>
    /\ cpu_usage' = <<"0">>
    /\ run_time' = RanFor \o (IF run_time = <<>> THEN <<"0", "s">> ELSE run_time)
    /\ UNCHANGED <<working_directory, memory_peak_label, disk_peak_label,
                   dialogPeaks, dialogGraphs, to_be_removed>>

set_dead_live_pushing_zero ==
    /\ is_dead' = TRUE
    /\ memory_usage' = <<"0">>
    /\ disk_usage' = <<"0">>
    /\ cpu_usage' = <<"0", "%">>
    /\ run_time' = RanFor \o (IF run_time = <<>> THEN <<"0", "s">> ELSE run_time)
    /\ ram_usage_history' = push_sample(ram_usage_history, 0)
    /\ UNCHANGED <<working_directory, memory_peak_label, disk_peak_label,
                   dialogPeaks, cpu_usage_history, disk_usage_history, dialog_stale,
                   to_be_removed>>

\* ProcDialog::set_dead past the is_dead check
set_dead_live ==
    /\ is_dead' = TRUE
    /\ memory_usage' = <<"0">>
    /\ disk_usage' = <<"0">>
    /\ cpu_usage' = <<"0", "%">>
    /\ run_time' = RanFor \o (IF run_time = <<>> THEN <<"0", "s">> ELSE run_time)
    /\ UNCHANGED <<working_directory, memory_peak_label, disk_peak_label,
                   dialogPeaks, dialogGraphs, to_be_removed>>

set_dead_reentrant ==
    /\ set_dead_calls < MaxSetDead
    /\ set_dead_calls' = set_dead_calls + 1
    /\ UNCHANGED <<update_calls, memory_seen, disk_seen, memory_peak_label_log>>
    /\ set_dead_live

\* ProcDialog::set_dead(&mut self)
set_dead ==
    /\ set_dead_calls < MaxSetDead
    /\ set_dead_calls' = set_dead_calls + 1
    /\ UNCHANGED <<update_calls, memory_seen, disk_seen, memory_peak_label_log>>
    /\ IF is_dead
       THEN UNCHANGED dialogFields
       ELSE set_dead_live

\* popup.connect_destroy: the window of the dialog was destroyed
popup_destroy ==
    /\ ~to_be_removed
    /\ to_be_removed' = TRUE
    /\ UNCHANGED <<dialogLabels, dialogPeaks, dialogGraphs, is_dead, dialogHistory>>

----------------------------------------------------------------------------
(* Text operations used by the process table *)

\* the characters that occur in the model, in code-point order
Alphabet == <<" ", "%", ".", "/", "0", "1", "2", "3", "4", "5", "6", "7", "8", "9",
              "A", "B", "G", "H", "M", "R", "S",
              "a", "b", "d", "f", "h", "k", "m", "n", "o", "r", "s", "x", "y", "z">>

Rank(c) == CHOOSE i \in 1..Len(Alphabet) : Alphabet[i] = c

\* char::to_lowercase on the characters of the model
lower_char(c) ==
    CASE c = "A" -> "a"
      [] c = "B" -> "b"
      [] c = "G" -> "g"
      [] c = "H" -> "h"
      [] c = "M" -> "m"
      [] c = "R" -> "r"
      [] c = "S" -> "s"
      [] OTHER -> c

\* str::to_lowercase
to_lowercase(s) == [i \in 1..Len(s) |-> lower_char(s[i])]

\* str::contains: the needle occurs at some offset of the haystack
contains(haystack, needle) ==
    \E off \in 0..(Len(haystack) - Len(needle)) :
        \A k \in 1..Len(needle) : haystack[off + k] = needle[k]

\* comparison of two strings, character by character: -1, 0 or 1
str_cmp(a, b) ==
    LET n == IF Len(a) < Len(b) THEN Len(a) ELSE Len(b)
        diff == {i \in 1..n : a[i] # b[i]}
    IN IF diff = {}
       THEN (IF Len(a) < Len(b) THEN -1 ELSE IF Len(a) > Len(b) THEN 1 ELSE 0)
       ELSE LET i == CHOOSE j \in diff : \A k \in diff : j <= k
            IN IF Rank(a[i]) < Rank(b[i]) THEN -1 ELSE 1

----------------------------------------------------------------------------
(* The sysinfo::Process values the table is filled from *)

TablePids == {1, 123}

Sh == <<"s", "h">>

\* the command lines of 0..MaxArgs arguments
CmdLines == UNION {[1..n -> {Sh}] : n \in 0..MaxArgs}

\* cpu_usage (hundredths of a percent), memory (kB), disk bytes read, written
Loads == { [cpu_usage |-> 0, memory |-> 0, read_bytes |-> 0, written_bytes |-> 0],
           [cpu_usage |-> 500, memory |-> 2048, read_bytes |-> 2, written_bytes |-> 3] }

\* name and file name of the executable path (<<>>: the path has none)
Executables == { [name |-> <<>>, exe |-> <<>>],
                 [name |-> <<"S", "h">>, exe |-> <<>>],
                 [name |-> Sh, exe |-> <<"S", "h">>] }

\* processes of the reconciliation: names and command lines may be empty
TickProcesses ==
    { [name |-> x.name, exe |-> x.exe, cmd |-> c, cpu_usage |-> l.cpu_usage,
       memory |-> l.memory, read_bytes |-> l.read_bytes, written_bytes |-> l.written_bytes] :
        x \in Executables, c \in CmdLines, l \in Loads }

\* processes shown while the user filters and sorts
ViewProcesses ==
    { [name |-> n, exe |-> <<>>, cmd |-> <<n>>, cpu_usage |-> c, memory |-> m,
       read_bytes |-> 0, written_bytes |-> 0] :
        n \in {Sh, <<"B", "a", "s", "h">>}, c \in {900, 996, 1000, 1004}, m \in {1, 2048} }

\* the process lists (HashMap<Pid, Process>) over a set of processes
ProcLists(processes) == UNION {[pids -> processes] : pids \in SUBSET TablePids}

\* the orders in which a HashMap over the pids may be iterated
Orders(pids) ==
    {o \in [1..Cardinality(pids) -> pids] : \A i, j \in DOMAIN o : i # j => o[i] # o[j]}

\* the texts typed into the filter entry
Queries == { <<>>, <<"1", "2", "3">>, <<"1", "2", "3", "4">>, <<"x", "y", "z">>,
             <<"B", "a", "s", "h">>, <<"B", "A", "S", "H">>, Sh }

----------------------------------------------------------------------------
(* Procs: the list store *)

\* the GType of each model column (gtk::ListStore::new)
ColumnTypes ==
    [c \in 0..8 |-> IF c = 0 THEN "U32"
                    ELSE IF c \in 1..5 THEN "STRING"
                    ELSE IF c = 6 THEN "F32"
                    ELSE "U64"]

\* pro.exe().file_name().and_then(|f| f.to_str()).or_else(|| Some(pro.name()))
resolved_exe(pro) == IF pro.exe # <<>> THEN pro.exe ELSE pro.name

store_pids(store) == {store[i][0] : i \in 1..Len(store)}

create_and_fill_model_if_both_empty(store, pid, cmdline, name, cpu, memory) ==
    IF cmdline = <<>> /\ name = <<>> THEN store
    ELSE Append(store,
                [c \in 0..8 |->
                    CASE c = 0 -> pid
                      [] c = 1 -> name
                      [] c = 2 -> FormatF32_1(cpu)
                      [] c = 3 -> format_number(memory)
                      [] c = 4 -> <<>>
                      [] c = 5 -> to_lowercase(name)
                      [] c = 6 -> cpu
                      [] c = 7 -> memory
                      [] c = 8 -> 0])

\* create_and_fill_model(list_store, pid, cmdline, name, cpu, memory)
create_and_fill_model(store, pid, cmdline, name, cpu, memory) ==
    IF cmdline = <<>> \/ name = <<>> THEN store
    ELSE Append(store,
                [c \in 0..8 |->
                    CASE c = 0 -> pid
                      [] c = 1 -> name
                      [] c = 2 -> FormatF32_1(cpu)
                      [] c = 3 -> format_number(memory)
                      [] c = 4 -> <<>>
                      [] c = 5 -> to_lowercase(name)
                      [] c = 6 -> cpu
                      [] c = 7 -> memory
                      [] c = 8 -> 0])

RECURSIVE fill_model(_, _, _)
\* `for pro in proc_list.values() { create_and_fill_model(..) }`, the map
\* being iterated in the order `order`
fill_model(store, procs, order) ==
    IF order = <<>> THEN store
    ELSE LET pid == order[1]
             pro == procs[pid]
         IN fill_model(create_and_fill_model(store, pid, pro.cmd, resolved_exe(pro),
                                             pro.cpu_usage, pro.memory * 1000),
                       procs, SubSeq(order, 2, Len(order)))

\* the row of an existing process, rewritten from its new figures
updated_row(row, pro) ==
    LET disk == pro.written_bytes + pro.read_bytes
    IN [row EXCEPT ![2] = FormatF32_1(pro.cpu_usage),
                   ![3] = format_number(pro.memory * 1000),
                   ![4] = format_number(disk),
                   ![6] = pro.cpu_usage,
                   ![7] = pro.memory * 1000,
                   ![8] = disk]

\* an entry that is skipped: empty resolved executable name or command line
skipped(pro) == pro.cmd = <<>> \/ resolved_exe(pro) = <<>>

RECURSIVE kept_rows(_, _)
\* first pass of a reconciliation: rows of vanished pids are removed, rows of
\* the entries that are not skipped are updated in place
kept_rows(store, procs) ==
    IF store = <<>> THEN <<>>
    ELSE LET row == store[1]
             rest == kept_rows(SubSeq(store, 2, Len(store)), procs)
         IN IF row[0] \notin DOMAIN procs THEN rest
            ELSE IF skipped(procs[row[0]]) THEN <<row>> \o rest
            ELSE <<updated_row(row, procs[row[0]])>> \o rest

RECURSIVE kept_and_updated_rows_without_removal(_, _)
kept_and_updated_rows_without_removal(store, procs) ==
    IF store = <<>> THEN <<>>
    ELSE LET row == store[1]
             rest == kept_and_updated_rows_without_removal(SubSeq(store, 2, Len(store)), procs)
         IN IF row[0] \notin DOMAIN procs \/ skipped(procs[row[0]]) THEN <<row>> \o rest
            ELSE <<updated_row(row, procs[row[0]])>> \o rest

\* the closure given to filter_model.set_visible_func
visible_func_one_way(row) ==
    IF ~filter_entry_visible \/ Len(filter_entry_text) < 1 THEN TRUE
    ELSE IF filter_entry_text = <<>> THEN TRUE
    ELSE LET text == filter_entry_text
             pid == to_string(row[0])
             name == to_lowercase(row[1])
         IN contains(pid, text) \/ contains(name, text)

visible_func(row) ==
    IF ~filter_entry_visible \/ Len(filter_entry_text) < 1 THEN TRUE
    ELSE IF filter_entry_text = <<>> THEN TRUE
    ELSE LET text == filter_entry_text
             pid == to_string(row[0])
             name == to_lowercase(row[1])
         IN \/ contains(pid, text)
            \/ contains(text, pid)
            \/ contains(name, text)
            \/ contains(text, name)

\* the visible rows of the filter model after the store changed into `store`
\* under the process list procs: the visible function is run again on every
\* row that was inserted or set, the other rows stay as they were
rows_changed(store, procs) ==
    {store[i][0] : i \in {j \in 1..Len(store) :
        IF store[j][0] \in DOMAIN procs /\ ~skipped(procs[store[j][0]])
        THEN visible_func(store[j])
        ELSE store[j][0] \in filter_shown}}

reconcile_without_removal(procs, order) ==
    LET kept == kept_and_updated_rows_without_removal(list_store, procs)
        fresh == SelectSeq(order, LAMBDA pid : pid \notin store_pids(kept))
        store == fill_model(kept, procs, fresh)
    IN /\ list_store' = store
       /\ filter_shown' = rows_changed(list_store', procs)
       /\ proc_list' = procs

\* one reconciliation of the table with the process list of a tick
reconcile(procs, order) ==
    LET kept == kept_rows(list_store, procs)
        fresh == SelectSeq(order, LAMBDA pid : pid \notin store_pids(kept))
        store == fill_model(kept, procs, fresh)
    IN /\ list_store' = store
       /\ filter_shown' = rows_changed(list_store', procs)
       /\ proc_list' = procs

----------------------------------------------------------------------------
(* Procs: the filter and the sort model *)

\* the rows of filter_model: the rows of the store it holds as visible
filter_model == SelectSeq(list_store, LAMBDA row : row[0] \in filter_shown)

\* filter_model.refilter(): the visible function is run on every row of the
\* store, under the filter entry as the step leaves it
refilter ==
    filter_shown' = {list_store'[i][0] : i \in {j \in 1..Len(list_store') :
                                                  visible_func(list_store[j])'}}

\* sort_column_id of a sort model that was never sorted
Unsorted == -1

\* append_column: the view column takes its own position as sort column id
append_column(v) == Append(v, Len(v))

appended_columns ==
    append_column(append_column(append_column(append_column(append_column(<<>>)))))

set_sort_column_ids_cpu_forgotten(v) ==
    [v EXCEPT ![2] = 5, ![4] = 7, ![5] = 8]

\* columns[1].set_sort_column_id(5); .. columns[4].set_sort_column_id(8)
\* (columns[i] of the source is v[i + 1])
set_sort_column_ids(v) ==
    [v EXCEPT ![2] = 5, ![3] = 6, ![4] = 7, ![5] = 8]

\* Procs.columns, by the sort column id of each view column
columns == set_sort_column_ids(appended_columns)

\* the comparison the sort model makes on a model column: by its type
compare_rows(col, a, b) ==
    IF ColumnTypes[col] = "STRING" THEN str_cmp(a[col], b[col])
    ELSE IF a[col] < b[col] THEN -1
    ELSE IF a[col] > b[col] THEN 1
    ELSE 0

\* x inserted behind the rows of the sorted sequence that do not come after it
insert_sorted(sorted, x, col, order) ==
    LET before(e) == IF order = "Ascending" THEN compare_rows(col, e, x) <= 0
                     ELSE compare_rows(col, e, x) >= 0
        n == Cardinality({i \in 1..Len(sorted) : before(sorted[i])})
    IN SubSeq(sorted, 1, n) \o <<x>> \o SubSeq(sorted, n + 1, Len(sorted))

RECURSIVE sort_rows(_, _, _)
sort_rows(rows, col, order) ==
    IF rows = <<>> THEN <<>>
    ELSE insert_sorted(sort_rows(SubSeq(rows, 1, Len(rows) - 1), col, order),
                       rows[Len(rows)], col, order)

\* the rows left_tree shows, top to bottom
sort_model ==
    IF sort_column_id = Unsorted THEN filter_model
    ELSE sort_rows(filter_model, sort_column_id, sort_order)

\* Option<T>: None, Some(x)
None == <<>>

Some(x) == <<x>>

\* model.value(&iter, col).get::<u32>(): Ok(x) when the column holds a u32
get_u32(row, col) ==
    IF ColumnTypes[col] = "U32" THEN [ok |-> TRUE, x |-> row[col]]
    ELSE [ok |-> FALSE, x |-> 0]

cursor_changed_keeping_pid ==
    LET pid_ret ==
            IF selected' # None
            THEN LET got == get_u32(selected'[1], 0)
                 IN IF got.ok THEN <<Some(got.x), TRUE>> ELSE <<current_pid, FALSE>>
            ELSE <<current_pid, FALSE>>
    IN /\ current_pid' = pid_ret[1]
       /\ kill_button_sensitive' = pid_ret[2]
       /\ info_button_sensitive' = pid_ret[2]

\* left_tree.connect_cursor_changed: the callback, run on the selection the
\* cursor change leaves
cursor_changed ==
    LET pid_ret ==
            IF selected' # None
            THEN LET got == get_u32(selected'[1], 0)
                 IN IF got.ok THEN <<Some(got.x), TRUE>> ELSE <<None, FALSE>>
            ELSE <<None, FALSE>>
    IN /\ current_pid' = pid_ret[1]
       /\ kill_button_sensitive' = pid_ret[2]
       /\ info_button_sensitive' = pid_ret[2]

\* Procs::new(proc_list, ..)
new(procs, order) ==
    /\ list_store = fill_model(<<>>, procs, order)
    /\ filter_entry_visible = FALSE
    /\ filter_entry_text = <<>>
    /\ sort_column_id = Unsorted
    /\ sort_order = "Ascending"
    /\ proc_list = procs
    /\ filter_shown = {pid \in store_pids(list_store) : TRUE}
    /\ selected = None
    /\ current_pid = None
    /\ kill_button_sensitive = FALSE
    /\ info_button_sensitive = FALSE
    /\ cursor_changed_calls = 0

\* filter_button.connect_clicked: the entry is hidden or shown, the filter
\* model is not told
filter_button_clicked ==
    /\ filter_entry_visible' = ~filter_entry_visible
    /\ UNCHANGED <<filter_entry_text, list_store, sort_column_id, sort_order, proc_list,
                   filter_shown>>

\* the user edits the text of the shown filter entry: characters are deleted
\* or inserted, so connect_text_length_notify runs refilter
filter_entry_edited(text) ==
    /\ filter_entry_visible
    /\ text # filter_entry_text
    /\ filter_entry_text' = text
    /\ UNCHANGED <<filter_entry_visible, list_store, sort_column_id, sort_order, proc_list>>
    /\ refilter

\* Procs::hide_filter: set_text("") notifies only when it deletes characters
hide_filter ==
    /\ filter_entry_visible' = FALSE
    /\ filter_entry_text' = <<>>
    /\ UNCHANGED <<list_store, sort_column_id, sort_order, proc_list>>
    /\ IF filter_entry_text # <<>> THEN refilter ELSE UNCHANGED filter_shown

\* a click on the header of view column i (columns[i] of the source): first
\* ascending, then descending, then unsorted again
column_clicked(i) ==
    LET id == columns[i + 1]
    IN /\ IF sort_column_id # id
          THEN sort_column_id' = id /\ sort_order' = "Ascending"
          ELSE IF sort_order = "Ascending"
          THEN sort_column_id' = id /\ sort_order' = "Descending"
          ELSE sort_column_id' = Unsorted /\ sort_order' = "Ascending"
       /\ UNCHANGED <<list_store, filter_entry_visible, filter_entry_text, proc_list,
                      filter_shown>>

----------------------------------------------------------------------------
(* DisplaySysInfo: the values it is given *)

\* number of processors a snapshot reports
MaxProcessors == 1
\* number of components (temperature sensors) a snapshot reports
MaxComponents == 1
\* number of ticks of the system tab
MaxSysTicks == 2

\* total_memory(), used_memory(), total_swap(), used_swap() in kB, by load
MemoryLevels ==
    << [total_memory |-> 0, used_memory |-> 0, total_swap |-> 0, used_swap |-> 0],
       [total_memory |-> 8000, used_memory |-> 3000, total_swap |-> 0, used_swap |-> 0],
       [total_memory |-> 8000, used_memory |-> 5000, total_swap |-> 4000, used_swap |-> 1000] >>

\* a sysinfo::System snapshot: the memory figures of a load level, the usage
\* of each of np processors in hundredths of a percent and the temperature
\* of each of nc components in tenths of a degree Celsius
system(level, np, nc) ==
    [total_memory |-> MemoryLevels[level].total_memory,
     used_memory |-> MemoryLevels[level].used_memory,
     total_swap |-> MemoryLevels[level].total_swap,
     used_swap |-> MemoryLevels[level].used_swap,
     global_cpu_usage |-> 1000 * level,
     processors |-> [i \in 1..np |-> 1250 * (2 * level + i - 2)],
     components |-> [i \in 1..nc |-> 345 + 55 * level + 100 * i]]

\* the snapshots of the model: every load level, every number of processors
\* and every number of components
Systems ==
    {system(level, MaxProcessors, MaxComponents) : level \in 1..3}
    \cup {system(2, np, MaxComponents) : np \in 0..MaxProcessors}
    \cup {system(2, MaxProcessors, nc) : nc \in 0..MaxComponents}

----------------------------------------------------------------------------
(* 64-bit floats, as far as a quotient of two integers needs them *)

Finite(n, d) == [kind |-> "finite", num |-> n, den |-> d]
NaN == [kind |-> "NaN", num |-> 0, den |-> 0]
Infinite == [kind |-> "infinite", num |-> 0, den |-> 0]

\* a as f64 / b as f64, for unsigned integers a and b
f64_div(a, b) == IF b # 0 THEN Finite(a, b) ELSE IF a = 0 THEN NaN ELSE Infinite

\* f64::is_nan
is_nan(x) == x.kind = "NaN"

\* ::std::cmp::max
max(a, b) == IF b > a THEN b ELSE a

----------------------------------------------------------------------------
(* DisplaySysInfo *)

\* gtk::ProgressBar::new()
ProgressBarNew == [text |-> <<>>, fraction |-> Finite(0, 1), show_text |-> FALSE]

\* create_progress_bar(non_graph_layout, line, label, text)
create_progress_bar(text) == [ProgressBarNew EXCEPT !.text = text, !.show_text = TRUE]

\* Graph::new: no series, nothing to redraw
GraphNew == [data |-> <<>>, stale |-> FALSE]

\* Graph::push(RotateVec::new(..), label, ..)
graph_push(g, d) == [g EXCEPT !.data = Append(@, d)]

\* format!("{:.1} %", cpu_usage)
percent(c) == FormatF32_1(c) \o <<" ", "%">>

\* format!("{:.1}", t) for a temperature of t tenths of a degree
FormatTenths(t) == to_string(t \div 10) \o <<".">> \o to_string(t % 10)

\* format!("{:.1} °C", component.temperature())
celsius(t) == FormatTenths(t) \o <<" ", "°", "C">>

\* format!("{:.1} °F", component.temperature() * 1.8 + 32.); the temperatures
\* of Systems are multiples of half a degree, so that t * 1.8 is a whole
\* number of tenths
fahrenheit(t) == FormatTenths((t * 9) \div 5 + 320) \o <<" ", "°", "F">>

\* RotateVec::get_mut(i): the slot of the i-th most recent sample, or none
get_mut(v, i) == IF i < Len(v) THEN <<i + 1>> ELSE <<>>

shift_and_write_unmoved(g, pos, x) ==
    LET moved == g.data[pos + 1]
    IN IF get_mut(moved, 0) # <<>>
       THEN [g EXCEPT !.data[pos + 1] = set_sample(moved, 0, x),
                      !.stale = sample_written]
       ELSE [g EXCEPT !.data[pos + 1] = moved]

\* g.data[pos].move_start();
\* if let Some(p) = g.data[pos].get_mut(0) { *p = x; }
shift_and_write(g, pos, x) ==
    LET moved == move_start(g.data[pos + 1])
    IN IF get_mut(moved, 0) # <<>>
       THEN [g EXCEPT !.data[pos + 1] = set_sample(moved, 0, x),
                      !.stale = sample_written]
       ELSE [g EXCEPT !.data[pos + 1] = moved]

\* the closure disp of update_system_info
disp(total, used) ==
    format_number(used * 1000) \o <<" ", "/", " ">> \o format_number(total * 1000)

ram_fraction_unguarded(total_ram, used) == f64_div(used, total_ram)

\* the fraction given to self.ram.set_fraction
ram_fraction(total_ram, used) ==
    IF total_ram # 0 THEN f64_div(used, total_ram) ELSE Finite(0, 1)

\* the fraction given to self.swap.set_fraction
swap_fraction(total_swap, total_ram, used) ==
    LET total == max(total_swap, total_ram)
        fraction == IF total # 0 THEN f64_div(used, total) ELSE Finite(0, 1)
    IN IF is_nan(fraction) THEN Finite(0, 1) ELSE fraction

RECURSIVE update_temperatures(_, _, _, _)
\* the temperature part of update_system_info: the loop over
\* sys.components().iter().zip(self.components.iter()).enumerate(), from
\* position pos on
update_temperatures(self, sys, in_fahrenheit, pos) ==
    IF pos >= Len(sys.components) \/ pos >= Len(self.components) THEN self
    ELSE IF pos >= Len(self.temperature_usage_history.data)
    THEN [self EXCEPT !.panicked = TRUE]
    ELSE LET temperature == sys.components[pos + 1]
             once == shift_and_write(self.temperature_usage_history, pos, temperature)
             t == once.data[pos + 1]
             twice == IF get_mut(t, 0) # <<>>
                      THEN [once EXCEPT !.data[pos + 1] = set_sample(t, 0, temperature)]
                      ELSE once
         IN update_temperatures(
                [self EXCEPT !.temperature_usage_history = twice,
                             !.components[pos + 1] =
                                 IF in_fahrenheit THEN fahrenheit(temperature)
                                 ELSE celsius(temperature)],
                sys, in_fahrenheit, pos + 1)

\* DisplaySysInfo::update_system_info(&mut self, sys, display_fahrenheit)
update_system_info(self, sys, in_fahrenheit) ==
    LET total_ram == sys.total_memory
        ram_done ==
            [self EXCEPT !.ram.text = disp(total_ram, sys.used_memory),
                         !.ram.fraction = ram_fraction(total_ram, sys.used_memory),
                         !.ram_usage_history = shift_and_write(@, 0, sys.used_memory)]
        swap_done ==
            [ram_done EXCEPT !.swap.text = disp(sys.total_swap, sys.used_swap),
                             !.swap.fraction = swap_fraction(sys.total_swap, total_ram,
                                                             sys.used_swap),
                             !.ram_usage_history = shift_and_write(@, 1, sys.used_swap)]
    IN update_temperatures(swap_done, sys, in_fahrenheit, 0)

RECURSIVE update_processors(_, _, _)
\* the loop of update_system_info_display over
\* sys.processors().iter().enumerate(), from processor n on: v[n + 1] and
\* h.data[n] are indexed, and an index that does not exist panics
update_processors(self, sys, n) ==
    IF n >= Len(sys.processors) THEN self
    ELSE LET i == n + 1
             cpu_usage_of == sys.processors[n + 1]
         IN IF i >= Len(self.procs) THEN [self EXCEPT !.panicked = TRUE]
            ELSE LET shown == [self EXCEPT !.procs[i + 1] =
                                   [text |-> percent(cpu_usage_of),
                                    show_text |-> TRUE,
                                    fraction |-> Finite(cpu_usage_of, 10000)]]
                 IN IF i - 1 >= Len(self.cpu_usage_history.data)
                    THEN [shown EXCEPT !.panicked = TRUE]
                    ELSE update_processors(
                             [shown EXCEPT !.cpu_usage_history =
                                  shift_and_write(@, i - 1, cpu_usage_of)],
                             sys, n + 1)

\* DisplaySysInfo::update_system_info_display(&mut self, sys)
update_system_info_display(self, sys) ==
    LET global == sys.global_cpu_usage
        first == [self EXCEPT !.procs[1] = [text |-> percent(global),
                                            show_text |-> TRUE,
                                            fraction |-> Finite(global, 10000)]]
        looped == update_processors(first, sys, 0)
    IN IF looped.panicked THEN looped
       ELSE [looped EXCEPT !.cpu_usage_history.stale = invalidate,
                           !.ram_usage_history.stale = invalidate,
                           !.temperature_usage_history.stale = invalidate]

\* DisplaySysInfo::new(sys, note, settings)
display_sys_info_new(sys, in_fahrenheit) ==
    LET n == Len(sys.processors)
        zeros == RotateVecNew(HistoryLen)
        procs == [k \in 1..(n + 2) |->
                     IF k = 1
                     THEN [text |-> percent(sys.global_cpu_usage),
                           show_text |-> TRUE,
                           fraction |-> Finite(sys.global_cpu_usage, 10000)]
                     ELSE IF k <= n + 1
                     THEN [text |-> percent(sys.processors[k - 1]),
                           show_text |-> TRUE,
                           fraction |-> Finite(sys.processors[k - 1], 100)]
                     ELSE ProgressBarNew]
        tmp == [procs |-> procs,
                ram |-> create_progress_bar(<<>>),
                swap |-> create_progress_bar(<<>>),
                components |-> [i \in 1..Len(sys.components) |-> celsius(sys.components[i])],
                cpu_usage_history |->
                    [GraphNew EXCEPT !.data = [i \in 1..n |-> zeros]],
                ram_usage_history |-> graph_push(graph_push(GraphNew, zeros), zeros),
                temperature_usage_history |->
                    [GraphNew EXCEPT !.data = [i \in 1..Len(sys.components) |-> zeros]],
                panicked |-> FALSE]
    IN update_system_info(tmp, sys, in_fahrenheit)

\* adjustment.connect_value_changed: the tab was scrolled
adjustment_value_changed(self) ==
    [self EXCEPT !.cpu_usage_history.stale = invalidate,
                 !.ram_usage_history.stale = invalidate,
                 !.temperature_usage_history.stale = invalidate]

----------------------------------------------------------------------------
(* The label callback of the memory graph.  Its argument, the ceiling of   *)
(* the graph in kB, can exceed what an integer of the model holds: v is    *)
(* the pair <<hi, lo>> that stands for hi * 1,000,000 + lo, lo < 1,000,000 *)

Million == 1000000

\* v < bound, the bound being such a pair as well
below(v, bound) == v[1] < bound[1] \/ (v[1] = bound[1] /\ v[2] < bound[2])

\* the quotient and the remainder of v by e, for an e that divides a million
\* or is a whole number of millions
div_rem(v, e) ==
    IF e <= Million
    THEN [q |-> v[1] * (Million \div e) + v[2] \div e, r |-> v[2] % e]
    ELSE [q |-> v[1] \div (e \div Million),
          r |-> (v[1] % (e \div Million)) * Million + v[2]]

\* format!("{:.1}", v / d): v over a tenth of d, rounded to the nearest whole
\* number, an exact tie going to the even one
format_1(v, d) ==
    LET e == d \div 10
        qr == div_rem(v, e)
        tenths == IF 2 * qr.r > e \/ (2 * qr.r = e /\ qr.q % 2 = 1)
                  THEN qr.q + 1 ELSE qr.q
    IN FormatTenths(tenths)

\* format!("{}", v / 2.) for a whole v below a million
format_half(v) ==
    IF v[2] % 2 = 0 THEN to_string(v[2] \div 2)
    ELSE to_string(v[2] \div 2) \o <<".", "5">>

ram_label_callback_mid_undivided(v) ==
    IF below(v, <<0, 100000>>)
    THEN <<to_string(v[2]), format_half(v), <<"0">>, <<"k", "B">>>>
    ELSE IF below(v, <<10, 0>>)
    THEN <<format_1(v, 1000), format_1(v, 1000), <<"0">>, <<"M", "B">>>>
    ELSE IF below(v, <<10000, 0>>)
    THEN <<format_1(v, 1000000), format_1(v, 1000000), <<"0">>, <<"G", "B">>>>
    ELSE <<format_1(v, 1000 * Million), format_1(v, 1000 * Million), <<"0">>, <<"T", "B">>>>

\* the closure given to ram_usage_history.set_label_callbacks: the top, the
\* middle and the bottom label and the unit
ram_label_callback(v) ==
    IF below(v, <<0, 100000>>)
    THEN <<to_string(v[2]), format_half(v), <<"0">>, <<"k", "B">>>>
    ELSE IF below(v, <<10, 0>>)
    THEN <<format_1(v, 1000), format_1(v, 2000), <<"0">>, <<"M", "B">>>>
    ELSE IF below(v, <<10000, 0>>)
    THEN <<format_1(v, 1000000), format_1(v, 2000000), <<"0">>, <<"G", "B">>>>
    ELSE <<format_1(v, 1000 * Million), format_1(v, 2000 * Million), <<"0">>, <<"T", "B">>>>

----------------------------------------------------------------------------
(* One shift-and-write of a sample, as each caller makes it *)

\* data.move_start(); *data.get_mut(0).expect("cannot get data 0") = x;
shift_and_write_expect(data, x) ==
    LET moved == move_start(data)
    IN IF get_mut(moved, 0) # <<>>
       THEN [panicked |-> FALSE, data |-> set_sample(moved, 0, x)]
       ELSE [panicked |-> TRUE, data |-> moved]

\* data.move_start(); if let Some(p) = data.get_mut(0) { *p = x; }
shift_and_write_if_some(data, x) ==
    [panicked |-> FALSE, data |-> shift_and_write([data |-> <<data>>, stale |-> FALSE], 0, x).data[1]]

----------------------------------------------------------------------------
(* The calls made on the functions above *)

\* days of the longest run time
MaxDays == 2
\* capacity of the longest series
MaxCapacity == 2

\* process.run_time(), in seconds
RunTimes ==
    { d * 86400 + h * 3600 + m * 60 + s :
        d \in 0..MaxDays, h \in {0, 1, 23}, m \in {0, 1, 59}, s \in {0, 1, 5, 59} }

\* ceilings of the memory graph, in kB; none of them lies exactly between
\* two tenths of its unit
Ceilings ==
    { <<hi, lo>> : hi \in {0, 1, 9, 10, 1234, 9999, 10000, 25000},
                   lo \in {0, 1, 99999, 100120, 999999} } \cup {<<0, 100000>>}

\* the series a sample is written into
Series == UNION {[1..n -> {0, 7}] : n \in 0..MaxCapacity}

Calls ==
    {[fn |-> "format_time", t |-> t] : t \in RunTimes}
    \cup {[fn |-> "ram_label_callback", v |-> v] : v \in Ceilings}
    \cup {[fn |-> "get_mut", data |-> d, i |-> i] : d \in Series, i \in 0..(MaxCapacity + 1)}
    \cup {[fn |-> caller, data |-> d, x |-> 5] :
             caller \in {"ProcDialog::update", "update_system_info"}, d \in Series}

----------------------------------------------------------------------------
(* Specifications *)

\* no dialog is open
NoDialog ==
    /\ working_directory = <<>> /\ memory_usage = <<>> /\ disk_usage = <<>>
    /\ cpu_usage = <<>> /\ run_time = <<>>
    /\ memory_peak_label = <<>> /\ disk_peak_label = <<>>
    /\ memory_peak = 0 /\ disk_peak = 0
    /\ ram_usage_history = <<>> /\ cpu_usage_history = <<>> /\ disk_usage_history = <<>>
    /\ dialog_stale = dialog_invalidated
    /\ is_dead = FALSE /\ to_be_removed = FALSE
    /\ update_calls = 0 /\ set_dead_calls = 0
    /\ memory_seen = <<>> /\ disk_seen = <<>> /\ memory_peak_label_log = <<>>

\* the table of a system whose process list is empty
EmptyTable == new(<<>>, <<>>)

NoSysInfo ==
    /\ display_tab = <<>> /\ display_fahrenheit = FALSE
    /\ sys_pc = "idle" /\ sys_ticks = 0 /\ sys_seen = <<>>

NoCall == call = <<>> /\ result = <<>>

\* -- one process dialog, from its creation on --
Update ==
    /\ \E process \in Processes : update(process)
    /\ UNCHANGED <<tableVars, cursorVars, sysVars, callVars>>

SetDead == set_dead /\ UNCHANGED <<tableVars, cursorVars, sysVars, callVars>>

PopupDestroy == popup_destroy /\ UNCHANGED <<tableVars, cursorVars, sysVars, callVars>>

Init ==
    /\ \E process \in Processes : create_process_dialog(process)
    /\ EmptyTable /\ NoSysInfo /\ NoCall

Next == Update \/ SetDead \/ PopupDestroy

Spec == Init /\ [][Next]_vars

\* -- the process table, reconciled tick after tick --
Reconcile ==
    /\ \E procs \in ProcLists(TickProcesses) :
          \E order \in Orders(DOMAIN procs) : reconcile(procs, order)
    /\ UNCHANGED <<filter_entry_visible, filter_entry_text, sort_column_id, sort_order>>
    /\ UNCHANGED <<dialogVars, sysVars, callVars, cursorVars>>

InitProcs ==
    /\ \E procs \in ProcLists(TickProcesses) :
          \E order \in Orders(DOMAIN procs) : new(procs, order)
    /\ NoDialog /\ NoSysInfo /\ NoCall

NextProcs == Reconcile

SpecProcs == InitProcs /\ [][NextProcs]_vars

\* -- the process table, filtered and sorted by the user --
FilterButtonClicked ==
    filter_button_clicked /\ UNCHANGED <<dialogVars, sysVars, callVars, cursorVars>>

FilterEntryEdited ==
    /\ \E text \in Queries : filter_entry_edited(text)
    /\ UNCHANGED <<dialogVars, sysVars, callVars, cursorVars>>

HideFilter == hide_filter /\ UNCHANGED <<dialogVars, sysVars, callVars, cursorVars>>

ColumnClicked ==
    /\ \E i \in 0..4 : column_clicked(i)
    /\ UNCHANGED <<dialogVars, sysVars, callVars, cursorVars>>

InitView ==
    /\ \E procs \in ProcLists(ViewProcesses) :
          \E order \in Orders(DOMAIN procs) : new(procs, order)
    /\ NoDialog /\ NoSysInfo /\ NoCall

NextView == FilterButtonClicked \/ FilterEntryEdited \/ HideFilter \/ ColumnClicked

SpecView == InitView /\ [][NextView]_vars

\* -- the process table, rows selected and unselected by the user --

\* the cursor of left_tree changes: a row of the view is selected, or none is
CursorChanged ==
    /\ cursor_changed_calls < MaxCursorChanges
    /\ cursor_changed_calls' = cursor_changed_calls + 1
    /\ \E sel \in {None} \cup {Some(sort_model[i]) : i \in 1..Len(sort_model)} :
          selected' = sel
    /\ cursor_changed
    /\ UNCHANGED <<dialogVars, tableVars, sysVars, callVars>>

InitCursor ==
    /\ \E procs \in ProcLists(ViewProcesses) :
          \E order \in Orders(DOMAIN procs) : new(procs, order)
    /\ NoDialog /\ NoSysInfo /\ NoCall

NextCursor == CursorChanged

SpecCursor == InitCursor /\ [][NextCursor]_vars

\* -- the system tab and one tracked dialog, tick after tick --

\* the processes the tracked dialog is created from and updated with
TrackedProcesses ==
    { [memory |-> 100, read_bytes |-> 0, written_bytes |-> 0,
       cpu_usage |-> 0, run_time |-> 0, cwd |-> <<"/">>],
      [memory |-> 200, read_bytes |-> 2, written_bytes |-> 3,
       cpu_usage |-> 996, run_time |-> 65, cwd |-> <<"/">>] }

\* first half of a tick of the system tab
UpdateSystemInfo ==
    /\ sys_pc = "idle" /\ ~display_tab.panicked /\ sys_ticks < MaxSysTicks
    /\ \E sys \in Systems :
          /\ display_tab' = update_system_info(display_tab, sys, display_fahrenheit)
          /\ sys_seen' = sys
    /\ sys_pc' = "system_info_updated"
    /\ sys_ticks' = sys_ticks + 1
    /\ UNCHANGED <<display_fahrenheit, dialogVars, tableVars, cursorVars, callVars>>

\* second half of the tick, on the same snapshot
UpdateSystemInfoDisplay ==
    /\ sys_pc = "system_info_updated"
    /\ display_tab' = update_system_info_display(display_tab, sys_seen)
    /\ sys_pc' = "idle"
    /\ UNCHANGED <<display_fahrenheit, sys_ticks, sys_seen, dialogVars, tableVars, cursorVars, callVars>>

AdjustmentValueChanged ==
    /\ sys_pc = "idle" /\ ~display_tab.panicked
    /\ display_tab' = adjustment_value_changed(display_tab)
    /\ UNCHANGED <<display_fahrenheit, sys_pc, sys_ticks, sys_seen,
                   dialogVars, tableVars, cursorVars, callVars>>

\* the tracked dialog is updated between two ticks of the system tab
UpdateTracked ==
    /\ sys_pc = "idle" /\ ~display_tab.panicked
    /\ \E process \in TrackedProcesses : update(process)
    /\ UNCHANGED <<tableVars, cursorVars, sysVars, callVars>>

InitGraphs ==
    /\ \E sys \in Systems : \E in_fahrenheit \in BOOLEAN :
          /\ display_tab = display_sys_info_new(sys, in_fahrenheit)
          /\ display_fahrenheit = in_fahrenheit
          /\ sys_seen = sys
    /\ sys_pc = "idle" /\ sys_ticks = 0
    /\ \E process \in TrackedProcesses : create_process_dialog(process)
    /\ EmptyTable /\ NoCall

NextGraphs ==
    UpdateSystemInfo \/ UpdateSystemInfoDisplay \/ AdjustmentValueChanged \/ UpdateTracked

SpecGraphs == InitGraphs /\ [][NextGraphs]_vars

\* -- one call of a function, on any of the values it can be given --
FormatTime ==
    /\ call.fn = "format_time" /\ result = <<>>
    /\ result' = <<format_time(call.t)>>
    /\ UNCHANGED <<call, dialogVars, tableVars, cursorVars, sysVars>>

RamLabelCallback ==
    /\ call.fn = "ram_label_callback" /\ result = <<>>
    /\ result' = <<ram_label_callback(call.v)>>
    /\ UNCHANGED <<call, dialogVars, tableVars, cursorVars, sysVars>>

GetMut ==
    /\ call.fn = "get_mut" /\ result = <<>>
    /\ result' = <<get_mut(call.data, call.i)>>
    /\ UNCHANGED <<call, dialogVars, tableVars, cursorVars, sysVars>>

\* the write of ProcDialog::update into one of its series
UpdateWrite ==
    /\ call.fn = "ProcDialog::update" /\ result = <<>>
    /\ result' = <<shift_and_write_expect(call.data, call.x)>>
    /\ UNCHANGED <<call, dialogVars, tableVars, cursorVars, sysVars>>

\* the write of update_system_info / update_system_info_display into a series
UpdateSystemInfoWrite ==
    /\ call.fn = "update_system_info" /\ result = <<>>
    /\ result' = <<shift_and_write_if_some(call.data, call.x)>>
    /\ UNCHANGED <<call, dialogVars, tableVars, cursorVars, sysVars>>

InitCalls ==
    /\ call \in Calls /\ result = <<>>
    /\ NoDialog /\ EmptyTable /\ NoSysInfo

NextCalls == FormatTime \/ RamLabelCallback \/ GetMut \/ UpdateWrite \/ UpdateSystemInfoWrite

SpecCalls == InitCalls /\ [][NextCalls]_vars

----------------------------------------------------------------------------
(* Properties of ProcDialog *)

Last(s) == s[Len(s)]

RECURSIVE SeqMax(_)
SeqMax(s) ==
    IF Len(s) = 1 THEN s[1]
    ELSE LET m == SeqMax(SubSeq(s, 1, Len(s) - 1))
         IN IF s[Len(s)] > m THEN s[Len(s)] ELSE m

\* s has t as a prefix
StartsWith(s, t) == Len(s) >= Len(t) /\ SubSeq(s, 1, Len(t)) = t

\* number of positions of s at which t occurs
Occurrences(s, t) ==
    Cardinality({i \in 1..(Len(s) - Len(t) + 1) : SubSeq(s, i, i + Len(t) - 1) = t})

\* the step is a call of update / of set_dead
UpdateCalled == update_calls' = update_calls + 1
SetDeadCalled == set_dead_calls' = set_dead_calls + 1
\* the step is a call of update that found the dialog alive
LiveUpdate == UpdateCalled /\ ~is_dead

\* C1: once is_dead is set it stays set under every later update and
\* set_dead call, and no later call changes a label, a peak value or one of
\* the three graph histories.
C1_DeathIsTerminal ==
    [][is_dead => (is_dead' /\ UNCHANGED <<dialogLabels, dialogPeaks, dialogGraphs>>)]_vars

\* a dead dialog on which update was called after its death
C1_Witness == is_dead /\ update_calls > Len(memory_seen) - 1

\* C2: set_dead on an already dead dialog leaves every field and label as
\* the first call left them; the run-time label carries "Ran for " exactly
\* once however many times set_dead was called.
C2_SetDeadIdempotent ==
    /\ [][(is_dead /\ SetDeadCalled) => UNCHANGED dialogFields]_vars
    /\ [](is_dead => (StartsWith(run_time, RanFor) /\ Occurrences(run_time, RanFor) = 1))

\* set_dead was called on a dialog that was already dead
C2_Witness == is_dead /\ set_dead_calls >= 2

\* C3: set_dead on a live dialog sets the memory-usage label to "0", the
\* disk-usage label to "0", the CPU label to "0%" and the run-time label to
\* "Ran for " followed by its previous text ("Ran for 0s" when that text
\* was empty).
C3_SetDeadLabels ==
    [][(~is_dead /\ SetDeadCalled) =>
          /\ memory_usage' = <<"0">>
          /\ disk_usage' = <<"0">>
          /\ cpu_usage' = <<"0", "%">>
          /\ run_time # <<>> => run_time' = <<"R", "a", "n", " ", "f", "o", "r", " ">> \o run_time
          /\ run_time = <<>> =>
                run_time' = <<"R", "a", "n", " ", "f", "o", "r", " ", "0", "s">>]_vars

\* set_dead has acted on a live dialog whose run-time label read "1m 5s"
C3_Witness ==
    /\ is_dead
    /\ cpu_usage = <<"0", "%">>
    /\ run_time = <<"R", "a", "n", " ", "f", "o", "r", " ", "1", "m", " ", "5", "s">>

\* C4: memory_peak and disk_peak never decrease; each equals the maximum of
\* the value recorded at creation and the values update has observed since;
\* a peak changes in an update iff the observed value is strictly greater
\* than the previous peak.
C4_PeaksMonotone ==
    /\ [](memory_peak = SeqMax(memory_seen) /\ disk_peak = SeqMax(disk_seen))
    /\ [][/\ memory_peak' >= memory_peak
          /\ disk_peak' >= disk_peak
          /\ LiveUpdate =>
                /\ (memory_peak' # memory_peak) <=> (Last(memory_seen') > memory_peak)
                /\ (disk_peak' # disk_peak) <=> (Last(disk_seen') > disk_peak)]_vars

\* updates observed a memory value below the peak and then one above it
C4_Witness ==
    /\ Len(memory_seen) = 3
    /\ memory_seen[2] < memory_seen[1]
    /\ memory_seen[3] > memory_seen[1]
    /\ memory_peak = memory_seen[3]
    /\ Len(disk_seen) = 3 /\ disk_seen[3] < disk_peak

\* C5: the memory-peak label is rewritten exactly on the updates that
\* strictly raise the memory peak and then shows the formatted new peak;
\* observing memory 100, 50, 200 leaves the label at the text for 200 after
\* exactly two writes (the text for 100, then the text for 200).
C5_PeakLabelRewrites ==
    /\ [][LiveUpdate =>
            /\ (Len(memory_peak_label_log') = Len(memory_peak_label_log) + 1)
                   <=> (memory_peak' > memory_peak)
            /\ memory_peak' > memory_peak =>
                   /\ memory_peak_label' = format_number(memory_peak')
                   /\ Last(memory_peak_label_log') = memory_peak_label'
            /\ ~(memory_peak' > memory_peak) =>
                   UNCHANGED <<memory_peak_label, memory_peak_label_log>>]_vars
    /\ [](memory_seen = <<100000, 50000, 200000>> =>
            /\ memory_peak_label = <<"2", "0", "0", " ", "k", "B">>
            /\ memory_peak_label_log = << <<"1", "0", "0", " ", "k", "B">>,
                                          <<"2", "0", "0", " ", "k", "B">> >>)

\* the dialog has observed memory 100, then 50, then 200
C5_Witness ==
    /\ memory_seen = <<100000, 50000, 200000>>
    /\ memory_peak_label = <<"2", "0", "0", " ", "k", "B">>

----------------------------------------------------------------------------
(* Properties of the process table *)

\* a occurs in b as a contiguous run of characters
Within(a, b) == \E i \in 1..(Len(b) + 1) : \E j \in (i - 1)..Len(b) : SubSeq(b, i, j) = a

RECURSIVE DecimalValue(_)
\* the number a sequence of decimal digits denotes
DecimalValue(d) ==
    IF d = <<>> THEN 0
    ELSE 10 * DecimalValue(SubSeq(d, 1, Len(d) - 1))
         + (CHOOSE v \in 0..9 : Digits[v + 1] = d[Len(d)])

Rows == {list_store[i] : i \in 1..Len(list_store)}

RowPids(store) == {store[i][0] : i \in 1..Len(store)}

\* the pids of the store, in store order
PidSeq(store) == [i \in 1..Len(store) |-> store[i][0]]

NoPidTwice(store) == \A i, j \in 1..Len(store) : store[i][0] = store[j][0] => i = j

\* the entry passes the empty-name / empty-command filter
Passes(pro) == Len(resolved_exe(pro)) > 0 /\ Len(pro.cmd) > 0

PassingPids(procs) == {pid \in DOMAIN procs : Passes(procs[pid])}

\* C6: a row is visible iff the filter entry is hidden, or the query is
\* empty, or the query and the pid in decimal contain one another, or the
\* query and the lower-cased name contain one another; "123" and "1234" both
\* show pid 123, "xyz" hides a row it shares nothing with, and an empty query
\* shows every row, filter active or not.
C6_VisibilityPredicate ==
    \A row \in Rows :
        LET query == filter_entry_text
            pid == to_string(row[0])
            name == to_lowercase(row[1])
        IN /\ DecimalValue(pid) = row[0]
           /\ visible_func(row) <=>
                 \/ ~filter_entry_visible
                 \/ query = <<>>
                 \/ Within(query, pid) \/ Within(pid, query)
                 \/ Within(query, name) \/ Within(name, query)
           /\ (row[0] = 123 /\ query \in {<<"1", "2", "3">>, <<"1", "2", "3", "4">>})
                 => visible_func(row)
           /\ (filter_entry_visible /\ query = <<"x", "y", "z">>) => ~visible_func(row)
           /\ query = <<>> => visible_func(row)

\* the shown filter holds "1234" and shows the row of pid 123, named "sh"
C6_Witness ==
    /\ filter_entry_visible
    /\ filter_entry_text = <<"1", "2", "3", "4">>
    /\ \E i \in 1..Len(filter_model) :
          filter_model[i][0] = 123 /\ filter_model[i][1] = <<"s", "h">>

\* C7: filling the table skips every entry whose resolved executable name or
\* command line is empty and inserts a row for every other entry; in a table
\* without a row for pid 1 an entry {pid 1, name "", cmd []} gets no row, and
\* when the next process list holds {pid 1, cpu 5.0, mem 2048, name "sh",
\* cmd ["sh"]} pid 1 has a row whose numeric CPU key is 5.0.
C7_EmptyEntriesSkipped ==
    /\ RowPids(list_store) = PassingPids(proc_list)
    /\ [][\A pid \in DOMAIN proc_list' :
            /\ Passes(proc_list'[pid]) => pid \in RowPids(list_store')
            /\ (~Passes(proc_list'[pid]) /\ pid \notin RowPids(list_store))
                  => pid \notin RowPids(list_store')
            /\ (/\ pid = 1
                /\ pid \in DOMAIN proc_list
                /\ proc_list[pid].name = <<>> /\ proc_list[pid].cmd = <<>>
                /\ proc_list[pid].exe = <<>>
                /\ pid \notin RowPids(list_store)
                /\ Passes(proc_list'[pid])
                /\ proc_list'[pid].cpu_usage = 500)
                  => \E row \in {list_store'[i] : i \in 1..Len(list_store')} :
                        row[0] = 1 /\ row[6] = 500]_vars

\* a reconciliation has inserted the row of pid 1, with CPU key 5.0, behind
\* the row of pid 123 that it updated
C7_Witness ==
    /\ Len(list_store) = 2
    /\ list_store[1][0] = 123 /\ list_store[1][4] # <<>>
    /\ list_store[2][0] = 1 /\ list_store[2][4] = <<>>
    /\ list_store[2][1] = <<"S", "h">> /\ list_store[2][6] = 500

\* C8: every row keeps its sort keys consistent with its display strings:
\* the name key is the lower-cased name, the CPU text is the one-decimal
\* format of the CPU key, the memory and disk texts are the byte formatter
\* applied to the memory and disk keys.
C8_KeysMatchDisplay ==
    \A row \in Rows :
        /\ row[5] = to_lowercase(row[1])
        /\ row[2] = FormatF32_1(row[6])
        /\ row[3] = format_number(row[7])
        /\ row[4] = format_number(row[8])

InOrder(key_leq(_, _)) ==
    \A i, j \in 1..Len(sort_model) :
        i < j => IF sort_order = "Ascending"
                 THEN key_leq(sort_model[i], sort_model[j])
                 ELSE key_leq(sort_model[j], sort_model[i])

\* C10: ordering by the CPU, memory or disk column compares the numeric keys
\* (model columns 6, 7, 8) and ordering by the name column compares the
\* lower-cased name (model column 5), never the display strings; the CPU
\* order and the memory order do not depend on each other.
C10_SortByKeys ==
    /\ columns = <<0, 5, 6, 7, 8>>
    /\ sort_column_id = columns[2] =>
          InOrder(LAMBDA a, b : str_cmp(to_lowercase(a[1]), to_lowercase(b[1])) <= 0)
    /\ sort_column_id = columns[3] => InOrder(LAMBDA a, b : a[6] <= b[6])
    /\ sort_column_id = columns[4] => InOrder(LAMBDA a, b : a[7] <= b[7])
    /\ sort_column_id = columns[5] => InOrder(LAMBDA a, b : a[8] <= b[8])

\* sorted by the CPU column, "9.0" stands above "10.0" though it is the
\* greater string, and the row above has the greater memory key
C10_Witness ==
    /\ sort_column_id = 6
    /\ sort_order = "Ascending"
    /\ Len(sort_model) = 2
    /\ sort_model[1][2] = <<"9", ".", "0">>
    /\ sort_model[2][2] = <<"1", "0", ".", "0">>
    /\ sort_model[1][7] > sort_model[2][7]

----------------------------------------------------------------------------
(* Properties of the series of the graphs *)

\* the series after is the series before shifted by one index, with x at index 0
ShiftedBy(before, after, x) ==
    /\ Len(after) = Len(before)
    /\ after[1] = x
    /\ \A i \in 2..Len(after) : after[i] = before[i - 1]

\* every series of the three graphs of the system tab
SysSeries ==
    {display_tab.cpu_usage_history.data[i] :
        i \in 1..Len(display_tab.cpu_usage_history.data)}
    \cup {display_tab.ram_usage_history.data[i] :
        i \in 1..Len(display_tab.ram_usage_history.data)}
    \cup {display_tab.temperature_usage_history.data[i] :
        i \in 1..Len(display_tab.temperature_usage_history.data)}

SystemInfoUpdated == sys_ticks' = sys_ticks + 1
SystemInfoDisplayed == sys_pc = "system_info_updated" /\ sys_pc' = "idle"

\* C11: over any sequence of ticks every series keeps the 61 samples it was
\* built with, and each shift-and-write (of ProcDialog::update, of
\* update_system_info and of update_system_info_display) leaves the sample
\* of that tick at index 0 and every earlier sample one index further back,
\* so that the oldest one is gone.
C11_SeriesShift ==
    /\ [](/\ \A h \in SysSeries : Len(h) = HistoryLen
          /\ Len(ram_usage_history) = HistoryLen
          /\ Len(cpu_usage_history) = HistoryLen
          /\ Len(disk_usage_history) = HistoryLen)
    /\ [][LiveUpdate =>
            /\ ShiftedBy(ram_usage_history, ram_usage_history', Last(memory_seen'))
            /\ ShiftedBy(disk_usage_history, disk_usage_history', Last(disk_seen'))
            /\ \E process \in TrackedProcesses :
                  /\ cpu_usage' = FormatF32_1(process.cpu_usage) \o <<"%">>
                  /\ ShiftedBy(cpu_usage_history, cpu_usage_history',
                               process.cpu_usage)]_vars
    /\ [][SystemInfoUpdated =>
            /\ ShiftedBy(display_tab.ram_usage_history.data[1],
                         display_tab'.ram_usage_history.data[1], sys_seen'.used_memory)
            /\ ShiftedBy(display_tab.ram_usage_history.data[2],
                         display_tab'.ram_usage_history.data[2], sys_seen'.used_swap)
            /\ \A pos \in 1..Len(display_tab.temperature_usage_history.data) :
                  IF pos <= Len(sys_seen'.components)
                  THEN ShiftedBy(display_tab.temperature_usage_history.data[pos],
                                 display_tab'.temperature_usage_history.data[pos],
                                 sys_seen'.components[pos])
                  ELSE display_tab'.temperature_usage_history.data[pos]
                           = display_tab.temperature_usage_history.data[pos]]_vars
    /\ [][SystemInfoDisplayed =>
            \A i \in 1..Len(display_tab.cpu_usage_history.data) :
                IF i <= Len(sys_seen.processors)
                THEN ShiftedBy(display_tab.cpu_usage_history.data[i],
                               display_tab'.cpu_usage_history.data[i],
                               sys_seen.processors[i])
                ELSE display_tab'.cpu_usage_history.data[i]
                         = display_tab.cpu_usage_history.data[i]]_vars

\* two ticks went by: the RAM series holds the sample of the second tick in
\* front of the sample of the first, a processor and a temperature series
\* hold two samples, and so does the memory series of the dialog
C11_Witness ==
    /\ sys_ticks = 2 /\ sys_pc = "idle"
    /\ display_tab.ram_usage_history.data[1][1] = 5000
    /\ display_tab.ram_usage_history.data[1][2] = 3000
    /\ Len(display_tab.cpu_usage_history.data) = 1
    /\ display_tab.cpu_usage_history.data[1][1] = 6250
    /\ display_tab.cpu_usage_history.data[1][2] = 3750
    /\ Len(display_tab.temperature_usage_history.data) = 1
    /\ display_tab.temperature_usage_history.data[1][1] = 610
    /\ display_tab.temperature_usage_history.data[1][2] = 555
    /\ ram_usage_history[1] = 200000 /\ ram_usage_history[2] = 100000
    /\ Len(ram_usage_history) = HistoryLen

\* the float is 0.0
IsZero(x) == x.kind = "finite" /\ x.num = 0

\* C13: update_system_info never divides by a total of zero: the fraction of
\* the RAM bar is 0.0 when the total memory is 0 and used / total otherwise,
\* the fraction of the swap bar is 0.0 when its divisor, the larger of total
\* swap and total memory, is 0 (and so whenever the total swap is 0), and
\* neither bar is ever given NaN or an infinite fraction.
C13_FractionsDefined ==
    LET total_ram == sys_seen.total_memory
        total == max(sys_seen.total_swap, total_ram)
    IN /\ display_tab.ram.fraction.kind = "finite"
       /\ display_tab.swap.fraction.kind = "finite"
       /\ ~is_nan(display_tab.ram.fraction) /\ ~is_nan(display_tab.swap.fraction)
       /\ IF total_ram = 0 THEN IsZero(display_tab.ram.fraction)
          ELSE display_tab.ram.fraction = Finite(sys_seen.used_memory, total_ram)
       /\ IF total = 0 THEN IsZero(display_tab.swap.fraction)
          ELSE display_tab.swap.fraction = Finite(sys_seen.used_swap, total)
       /\ sys_seen.total_swap = 0 => IsZero(display_tab.swap.fraction)

\* a tick on a snapshot without memory and without swap, after a tick on a
\* snapshot with both
C13_Witness ==
    /\ sys_ticks = 2
    /\ sys_seen.total_memory = 0 /\ sys_seen.total_swap = 0
    /\ IsZero(display_tab.ram.fraction) /\ IsZero(display_tab.swap.fraction)
    /\ display_tab.ram_usage_history.data[1][2] = 5000
    /\ display_tab.ram_usage_history.data[2][2] = 1000

\* a graph of the system tab holds a sample written after its last invalidate
SysStale ==
    \/ display_tab.cpu_usage_history.stale
    \/ display_tab.ram_usage_history.stale
    \/ display_tab.temperature_usage_history.stale

\* C18: within a tick every graph that got a new sample is invalidated after
\* the sample was written and before the updates of the tick end: an update
\* of a dialog leaves none of its three graphs stale, and when the tick of
\* the system tab is over none of its graphs holds a sample (RAM, swap,
\* temperature, processor) written after its last invalidate.
C18_WrittenThenInvalidated ==
    /\ [][LiveUpdate =>
             ~dialog_stale'.ram /\ ~dialog_stale'.cpu /\ ~dialog_stale'.disk]_vars
    /\ [](sys_ticks > 0 /\ sys_pc = "idle" => ~SysStale)

\* C19: set_dead changes nothing but is_dead and the memory-usage,
\* disk-usage, CPU and run-time labels: both peaks, both peak labels, the
\* working-directory label, to_be_removed and the three histories are as
\* before, and no step pushes a sample into a graph of a dead process.
C19_SetDeadFrame ==
    /\ [][SetDeadCalled =>
             UNCHANGED <<memory_peak, disk_peak, memory_peak_label, disk_peak_label,
                         working_directory, to_be_removed, ram_usage_history,
                         cpu_usage_history, disk_usage_history>>]_vars
    /\ [][is_dead =>
             UNCHANGED <<ram_usage_history, cpu_usage_history, disk_usage_history>>]_vars

\* a dialog whose window was destroyed was updated with 200 kB, declared
\* dead and updated once more: sample, peak and peak label are still there
C19_Witness ==
    /\ is_dead /\ set_dead_calls = 1 /\ to_be_removed
    /\ update_calls = 2 /\ Len(memory_seen) = 2
    /\ memory_usage = <<"0">>
    /\ ram_usage_history[1] = 200000
    /\ memory_peak = 200000
    /\ memory_peak_label = format_number(200000)

\* C20: no update of a tick indexes a series or a progress bar that does not
\* exist, whatever the snapshot: update_system_info stays below the number
\* of components and of labels, update_system_info_display finds series i
\* and bar i + 1 for every processor i reported, also when the snapshot
\* holds other numbers of components or processors than the one the tab was
\* built from.
C20_NoIndexOutOfBounds ==
    /\ ~display_tab.panicked
    /\ sys_pc = "idle" =>
          /\ Len(sys_seen.processors) <= Len(display_tab.cpu_usage_history.data)
          /\ Len(sys_seen.processors) + 1 <= Len(display_tab.procs)

----------------------------------------------------------------------------
(* Properties of the single calls *)

Returned(fn) == call.fn = fn /\ result # <<>>

RECURSIVE SplitWords(_)
\* the words of a text, split at its spaces
SplitWords(s) ==
    IF \A i \in 1..Len(s) : s[i] # " " THEN <<s>>
    ELSE LET k == CHOOSE i \in 1..Len(s) :
                      s[i] = " " /\ \A j \in 1..(i - 1) : s[j] # " "
         IN <<SubSeq(s, 1, k - 1)>> \o SplitWords(SubSeq(s, k + 1, Len(s)))

\* the units of the words of a run time as text, in the order they are written
TimeUnits(text) == [i \in 1..Len(SplitWords(text)) |-> Last(SplitWords(text)[i])]

\* the number written in front of the unit u, 0 when the unit is not written
TimePart(text, u) ==
    LET words == SplitWords(text)
    IN IF \E i \in 1..Len(words) : Last(words[i]) = u
       THEN LET w == words[CHOOSE i \in 1..Len(words) : Last(words[i]) = u]
            IN DecimalValue(SubSeq(w, 1, Len(w) - 1))
       ELSE 0

\* C14: format_time(t) writes the days as "<n>d " only when t / 86400 > 0,
\* the hours as "<n>h " only when (t / 3600) mod 24 > 0, the minutes as
\* "<n>m " only when (t / 60) mod 60 > 0 and always ends with (t mod 60) "s",
\* in this order; 65 gives "1m 5s", 3600 gives "1h 0s", 90061 gives
\* "1d 1h 1m 1s", and d * 86400 + h * 3600 + m * 60 + s of the parts written
\* (an omitted part counting 0) is t.
C14_FormatTime ==
    Returned("format_time") =>
        LET t == call.t
            text == result[1]
            written(u) == \E i \in 1..Len(TimeUnits(text)) : TimeUnits(text)[i] = u
        IN /\ TimeUnits(text) = SelectSeq(<<"d", "h", "m", "s">>, written)
           /\ written("d") <=> t \div 86400 > 0
           /\ written("h") <=> (t \div 3600) % 24 > 0
           /\ written("m") <=> (t \div 60) % 60 > 0
           /\ written("s")
           /\ TimePart(text, "d") = t \div 86400
           /\ TimePart(text, "h") = (t \div 3600) % 24
           /\ TimePart(text, "m") = (t \div 60) % 60
           /\ TimePart(text, "s") = t % 60
           /\ TimePart(text, "d") * 86400 + TimePart(text, "h") * 3600
                  + TimePart(text, "m") * 60 + TimePart(text, "s") = t
           /\ t = 65 => text = <<"1", "m", " ", "5", "s">>
           /\ t = 3600 => text = <<"1", "h", " ", "0", "s">>
           /\ t = 90061 =>
                  text = <<"1", "d", " ", "1", "h", " ", "1", "m", " ", "1", "s">>

\* format_time(90061) returned a text of four parts
C14_Witness ==
    /\ Returned("format_time") /\ call.t = 90061
    /\ Len(SplitWords(result[1])) = 4

\* the number a label shows, in tenths: "12.3" is 123, "12" is 120
LabelTenths(label) ==
    IF \E i \in 1..Len(label) : label[i] = "."
    THEN LET k == CHOOSE i \in 1..Len(label) : label[i] = "."
         IN 10 * DecimalValue(SubSeq(label, 1, k - 1))
            + DecimalValue(SubSeq(label, k + 1, Len(label)))
    ELSE 10 * DecimalValue(label)

\* the unit the claim names for the ceiling v
UnitOf(v) ==
    IF below(v, <<0, 100000>>) THEN <<"k", "B">>
    ELSE IF below(v, <<10, 0>>) THEN <<"M", "B">>
    ELSE IF below(v, <<10000, 0>>) THEN <<"G", "B">>
    ELSE <<"T", "B">>

\* the unit and the bottom label of the four texts returned for the ceiling v
UnitAndBottom(v, labels) == labels[4] = UnitOf(v) /\ labels[3] = <<"0">>

\* C15 as claimed: the label callback of the memory graph takes the unit from
\* the ceiling v alone (kB below 100,000, MB below 10,000,000, GB below
\* 10,000,000,000, TB otherwise), the bottom label is "0", and for every v
\* the middle label is half the top label.
C15_MidIsHalfTop ==
    Returned("ram_label_callback") =>
        /\ UnitAndBottom(call.v, result[1])
        /\ 2 * LabelTenths(result[1][2]) = LabelTenths(result[1][1])

\* C15 as the code has it: the unit follows from the ceiling v alone by the
\* thresholds, the bottom label is "0", the top label is v over the divisor
\* of the unit and the middle label v over twice that divisor; in MB, GB and
\* TB each of the two is rounded to one decimal on its own, so twice the
\* middle label is within 0.1 of the top label, and in kB, where nothing is
\* rounded, the middle label is exactly half the top label; the top label
\* lies in the range of its unit.
C15_MidIsHalfTopRounded ==
    Returned("ram_label_callback") =>
        LET v == call.v
            top == LabelTenths(result[1][1])
            mid == LabelTenths(result[1][2])
            unit == result[1][4]
        IN /\ UnitAndBottom(v, result[1])
           /\ 2 * mid - top \in {-1, 0, 1}
           /\ unit = <<"k", "B">> => 2 * mid = top /\ top = 10 * v[2]
           /\ unit = <<"M", "B">> => top >= 1000 /\ top <= 100000
           /\ unit = <<"G", "B">> => top >= 100 /\ top <= 100000
           /\ unit = <<"T", "B">> => top >= 100

\* the callback returned "100.1" and "50.1" for a ceiling of 100,120 kB
C15_Witness ==
    /\ Returned("ram_label_callback") /\ call.v = <<0, 100120>>
    /\ result[1] = << <<"1", "0", "0", ".", "1">>, <<"5", "0", ".", "1">>,
                      <<"0">>, <<"M", "B">> >>

----------------------------------------------------------------------------
(* Properties of the filter of the process table *)

\* C16: the rows the table shows are always the rows the visible function
\* admits under the filter entry as it is: after any sequence of clicks on
\* the filter button, edits of the query and hide_filter calls no row stays
\* hidden while the entry is hidden or its query is empty, also right after
\* the filter button hid an entry that still holds a query.
C16_ShownIsAdmitted ==
    /\ filter_shown = {row[0] : row \in {r \in Rows : visible_func(r)}}
    /\ ~filter_entry_visible \/ filter_entry_text = <<>>
           => filter_shown = store_pids(list_store)

\* C17: filtering by name ignores letter case: with the filter entry shown,
\* a query that equals the name of a row up to letter case (query "Bash" or
\* "BASH" for a process named "Bash") is admitted by the visible function.
C17_NameFilterIgnoresCase ==
    \A row \in Rows :
        /\ filter_entry_visible
        /\ filter_entry_text # <<>>
        /\ to_lowercase(filter_entry_text) = to_lowercase(row[1])
        => visible_func(row)
----------------------------------------------------------------------------
(* Properties of the selection of the process table *)

\* the pid in column 0 of the selected row, if a row is selected
SelectedPid == IF selected = None THEN None ELSE Some(selected[1][0])

\* C21: after every cursor change in the process list current_pid is
\* Some(pid of the selected row) iff a row is selected, and the "End task"
\* and "More information" buttons are sensitive iff current_pid is Some; at
\* construction current_pid is None and both buttons are insensitive
C21_CursorChangeSetsPid ==
    /\ cursor_changed_calls = 0
            => current_pid = None /\ ~kill_button_sensitive /\ ~info_button_sensitive
    /\ cursor_changed_calls > 0
            => /\ selected # None <=> current_pid # None
               /\ current_pid = SelectedPid
               /\ kill_button_sensitive <=> current_pid # None
               /\ info_button_sensitive <=> current_pid # None

\* the second cursor change of a table of two rows left the row of pid 123 selected
C21_Witness ==
    /\ cursor_changed_calls = 2
    /\ Len(list_store) = 2
    /\ selected # None
    /\ current_pid = Some(123)
    /\ kill_button_sensitive /\ info_button_sensitive
    /\ selected[1] \in Rows
====
